---------------------------- MODULE Spec2Model ----------------------------
(***************************************************************************)
(* State-machine model of the URL shortener: the urls table                *)
(* (models/url.py), the service functions (services/url_service.py) and    *)
(* the request handlers (api/url_endpoints.py).                            *)
(*                                                                         *)
(* Every request runs in its own database session.  A handler is split    *)
(* into steps exactly where it talks to the store (a query, a commit) or   *)
(* reads the clock, so that requests of different sessions interleave at   *)
(* those points and nowhere else.  A row is visible to another session     *)
(* once it is committed; urls holds the committed rows.                    *)
(***************************************************************************)
EXTENDS Integers, Sequences, FiniteSets, TLC

(***************************************************************************)
(* Bounds of the model.                                                    *)
(***************************************************************************)
\* ids the store's sequence hands out: 1..MaxId
MaxId == 2
\* the clock runs over 0..MaxNow
MaxNow == 1
\* redirects are no longer started on a row whose click_count reached this
MaxClickCount == 3
\* the ids, from 1, for which the code generator is exercised
MaxUrlId == 100

Ids == 1..MaxId
\* the concurrently running request sessions
Procs == {"s1", "s2"}

(***************************************************************************)
(* Optional[T]: None is the empty sequence, a present value v is <<v>>.    *)
(***************************************************************************)
None == << >>
Some(v) == <<v>>

(***************************************************************************)
(* datetime values: the wall-clock reading and tzinfo, which is None for   *)
(* a naive datetime and the UTC offset for an aware one.                   *)
(***************************************************************************)
datetime(wall, tzinfo) == [wall |-> wall, tzinfo |-> tzinfo]

\* datetime.now(timezone.utc) when the clock shows instant t
utcnow(t) == datetime(t, Some(0))

\* dt.replace(tzinfo=None): the wall reading is kept, the offset dropped
replace_tzinfo_none(dt) == datetime(dt.wall, None)

\* a > b on datetimes: two naive ones compare by wall reading, two aware
\* ones by instant (wall reading minus UTC offset)
datetime_gt(a, b) ==
    IF a.tzinfo = None /\ b.tzinfo = None
    THEN a.wall > b.wall
    ELSE (a.wall - a.tzinfo[1]) > (b.wall - b.tzinfo[1])

\* a DateTime column has no time zone: the value read back is naive
DateTimeColumn(dt) == datetime(dt.wall, None)

(***************************************************************************)
(* Code generator.  hashids.encode and hashids.decode under HASHIDS_SALT,  *)
(* HASHIDS_MIN_LENGTH and the 62-symbol alphabet, computed as the library  *)
(* computes them.                                                          *)
(***************************************************************************)
\* A string is the sequence of its characters.
\* ''.join(chars)
RECURSIVE Join(_)
Join(chars) == IF chars = << >> THEN "" ELSE Head(chars) \o Join(Tail(chars))

\* the characters of a sequence, and string.index(c), counted from 0
Chars(string) == {string[n] : n \in 1..Len(string)}

IndexOf(string, c) == (CHOOSE n \in 1..Len(string) : string[n] = c) - 1

\* ord(c) for the characters that occur: "-" is 45, "0" 48, "A" 65, "a" 97
Digits == <<"0", "1", "2", "3", "4", "5", "6", "7", "8", "9">>

Uppercase ==
    <<"A", "B", "C", "D", "E", "F", "G", "H", "I", "J", "K", "L", "M", "N", "O", "P",
      "Q", "R", "S", "T", "U", "V", "W", "X", "Y", "Z">>

Lowercase ==
    <<"a", "b", "c", "d", "e", "f", "g", "h", "i", "j", "k", "l", "m", "n", "o", "p",
      "q", "r", "s", "t", "u", "v", "w", "x", "y", "z">>

ord ==
    [c \in {"-"} \cup Chars(Digits) \cup Chars(Uppercase) \cup Chars(Lowercase) |->
        IF c = "-" THEN 45
        ELSE IF c \in Chars(Digits) THEN 48 + IndexOf(Digits, c)
        ELSE IF c \in Chars(Uppercase) THEN 65 + IndexOf(Uppercase, c)
        ELSE 97 + IndexOf(Lowercase, c)]

\* string[from:to], counted from 0
Slice(string, from, to) ==
    SubSeq(string, from + 1, IF to > Len(string) THEN Len(string) ELSE to)

\* settings.HASHIDS_SALT and settings.HASHIDS_MIN_LENGTH
HASHIDS_SALT ==
    <<"y", "o", "u", "r", "-", "s", "e", "c", "r", "e", "t", "-", "s", "a", "l", "t",
      "-", "c", "h", "a", "n", "g", "e", "-", "i", "n", "-", "p", "r", "o", "d", "u",
      "c", "t", "i", "o", "n">>

HASHIDS_MIN_LENGTH == 6

\* the alphabet given to Hashids(...)
HashidsAlphabetArg ==
    <<"a", "b", "c", "d", "e", "f", "g", "h", "i", "j", "k", "l", "m", "n", "o", "p",
      "q", "r", "s", "t", "u", "v", "w", "x", "y", "z", "A", "B", "C", "D", "E", "F",
      "G", "H", "I", "J", "K", "L", "M", "N", "O", "P", "Q", "R", "S", "T", "U", "V",
      "W", "X", "Y", "Z", "0", "1", "2", "3", "4", "5", "6", "7", "8", "9">>

\* hashids._reorder(string, salt): the salted shuffle
RECURSIVE reorder_loop(_, _, _, _, _)
reorder_loop(string, salt, i, index, integer_sum) ==
    IF i < 1 THEN string
    ELSE LET integer == ord[salt[index + 1]]
             sum == integer_sum + integer
             j == (integer + index + sum) % i
         IN  reorder_loop([string EXCEPT ![i + 1] = string[j + 1],
                                         ![j + 1] = string[i + 1]],
                          salt, i - 1, (index + 1) % Len(salt), sum)

reorder(string, salt) ==
    IF Len(salt) = 0 THEN string
    ELSE reorder_loop(string, salt, Len(string) - 1, 0, 0)

\* hashids._hash(number, alphabet): the digits of number in base
\* len(alphabet), most significant first
RECURSIVE hash(_, _)
hash(number, alphabet) ==
    LET digit == <<alphabet[(number % Len(alphabet)) + 1]>>
    IN  IF number \div Len(alphabet) = 0 THEN digit
        ELSE hash(number \div Len(alphabet), alphabet) \o digit

\* hashids._unhash(hashed, alphabet); alphabet.index raises ValueError for a
\* character that is not in the alphabet, which callers test beforehand
RECURSIVE unhash_loop(_, _, _)
unhash_loop(hashed, alphabet, number) ==
    IF hashed = << >> THEN number
    ELSE unhash_loop(Tail(hashed), alphabet,
                     number * Len(alphabet) + IndexOf(alphabet, Head(hashed)))

unhash(hashed, alphabet) == unhash_loop(hashed, alphabet, 0)

\* hashids._split(string, splitters): the parts between splitter characters
RECURSIVE split_loop(_, _, _, _)
split_loop(string, splitters, parts, part) ==
    IF string = << >> THEN Append(parts, part)
    ELSE IF Head(string) \in splitters
         THEN split_loop(Tail(string), splitters, Append(parts, part), << >>)
         ELSE split_loop(Tail(string), splitters, parts, Append(part, Head(string)))

split(string, splitters) == split_loop(string, splitters, << >>, << >>)

\* Hashids.__init__: separators, alphabet and guards derived from the salt
HashidsInit ==
    LET arg == HashidsAlphabetArg
        all_separators == <<"c", "f", "h", "i", "s", "t", "u",
                            "C", "F", "H", "I", "S", "T", "U">>
        separators0 == SelectSeq(all_separators, LAMBDA x : x \in Chars(arg))
        alphabet0 == SelectSeq(arg, LAMBDA x : x \notin Chars(separators0))
        separators1 == reorder(separators0, HASHIDS_SALT)
        \* ceil(len(alphabet) / 3.5)
        min_separators == (2 * Len(alphabet0) + 6) \div 7
        missing == min_separators - Len(separators1)
        separators == IF missing > 0
                      THEN separators1 \o Slice(alphabet0, 0, missing)
                      ELSE separators1
        alphabet1 == IF missing > 0
                     THEN Slice(alphabet0, missing, Len(alphabet0))
                     ELSE alphabet0
        alphabet2 == reorder(alphabet1, HASHIDS_SALT)
        \* ceil(len(alphabet) / 12)
        num_guards == (Len(alphabet2) + 11) \div 12
    IN  [alphabet |-> Slice(alphabet2, num_guards, Len(alphabet2)),
         guards |-> Slice(alphabet2, 0, num_guards),
         separators |-> separators]

\* sum(x % (i + 100) for i, x in enumerate(values))
RECURSIVE values_hash_loop(_, _)
values_hash_loop(values, i) ==
    IF i >= Len(values) THEN 0
    ELSE (values[i + 1] % (i + 100)) + values_hash_loop(values, i + 1)

\* a local variable: Body evaluated with the value bound once
With(value, Body(_)) == Body(value)

\* hashids._ensure_length
RECURSIVE ensure_length_loop(_, _, _)
ensure_length_loop(encoded, min_length, alphabet) ==
    IF Len(encoded) >= min_length THEN encoded
    ELSE With(reorder(alphabet, alphabet), LAMBDA shuffled :
         With(Slice(shuffled, Len(alphabet) \div 2, Len(shuffled)) \o encoded
              \o Slice(shuffled, 0, Len(alphabet) \div 2), LAMBDA grown :
         With(Len(grown) - min_length, LAMBDA excess :
           ensure_length_loop(
               IF excess > 0
               THEN Slice(grown, excess \div 2, excess \div 2 + min_length)
               ELSE grown,
               min_length, shuffled))))

ensure_length(encoded, min_length, alphabet, guards, values_hash) ==
    With(<<guards[((values_hash + ord[encoded[1]]) % Len(guards)) + 1]>> \o encoded,
         LAMBDA first :
    With(IF Len(first) < min_length
         THEN Append(first, guards[((values_hash + ord[first[3]]) % Len(guards)) + 1])
         ELSE first,
         LAMBDA both :
      ensure_length_loop(both, min_length, alphabet)))

\* the loop of hashids._encode over the values
RECURSIVE encode_loop(_, _, _, _, _)
encode_loop(values, i, lottery, alphabet, encoded) ==
    IF i >= Len(values) THEN [alphabet |-> alphabet, encoded |-> encoded]
    ELSE With(Slice(<<lottery>> \o HASHIDS_SALT \o alphabet, 0, Len(alphabet)),
              LAMBDA alphabet_salt :
         With(reorder(alphabet, alphabet_salt), LAMBDA shuffled :
         With(hash(values[i + 1], shuffled), LAMBDA last :
         With(values[i + 1] % (ord[last[1]] + i), LAMBDA value :
           encode_loop(values, i + 1, lottery, shuffled,
                       encoded \o last
                       \o <<HashidsInit.separators[
                              (value % Len(HashidsInit.separators)) + 1]>>)))))

\* hashids.encode(*values), the characters of the code; '' for no values
hashids_encode(values) ==
    IF values = << >> THEN << >>
    ELSE With(values_hash_loop(values, 0), LAMBDA values_hash :
         With(HashidsInit.alphabet[(values_hash % Len(HashidsInit.alphabet)) + 1],
              LAMBDA lottery :
         With(encode_loop(values, 0, lottery, HashidsInit.alphabet, <<lottery>>),
              LAMBDA looped :
         \* encoded[:-1] cuts off the last separator
         With(SubSeq(looped.encoded, 1, Len(looped.encoded) - 1), LAMBDA encoded :
           IF Len(encoded) >= HASHIDS_MIN_LENGTH THEN encoded
           ELSE ensure_length(encoded, HASHIDS_MIN_LENGTH, looped.alphabet,
                              HashidsInit.guards, values_hash)))))

\* the loop of hashids._decode over the parts
RECURSIVE decode_loop(_, _, _, _)
decode_loop(hash_parts, lottery_char, alphabet, numbers) ==
    IF hash_parts = << >> THEN numbers
    ELSE With(Slice(<<lottery_char>> \o HASHIDS_SALT \o alphabet, 0, Len(alphabet)),
              LAMBDA alphabet_salt :
         With(reorder(alphabet, alphabet_salt), LAMBDA shuffled :
           decode_loop(Tail(hash_parts), lottery_char, shuffled,
                       Append(numbers, unhash(Head(hash_parts), shuffled)))))

\* _unhash raises ValueError on a character that is not in the alphabet
ValueError(hash_parts) ==
    \E n \in 1..Len(hash_parts) :
        ~(Chars(hash_parts[n]) \subseteq Chars(HashidsInit.alphabet))

\* hashids.decode(hashid): the numbers, or () for the empty string, for a
\* ValueError of _unhash, and for a hashid that does not encode back
hashids_decode(hashid) ==
    IF hashid = << >> THEN << >>
    ELSE With(split(hashid, Chars(HashidsInit.guards)), LAMBDA parts :
         With(IF 2 <= Len(parts) /\ Len(parts) <= 3 THEN parts[2] ELSE parts[1],
              LAMBDA inner :
           IF inner = << >> THEN << >>
           ELSE With(split(Tail(inner), Chars(HashidsInit.separators)),
                     LAMBDA hash_parts :
                  IF ValueError(hash_parts) THEN << >>
                  ELSE With(decode_loop(hash_parts, Head(inner),
                                        HashidsInit.alphabet, << >>),
                            LAMBDA numbers :
                         IF hashid = hashids_encode(numbers) THEN numbers
                         ELSE << >>))))

\* generate_short_code(url_id), the characters of the code
short_code_chars(url_id) == hashids_encode(<<url_id>>)

\* hashids.encode(url_id) as a string, for the ids the store hands out
ShortCodes == [url_id \in 1..(MaxId + 1) |-> Join(short_code_chars(url_id))]

\* generate_short_code(url_id): the string, for the id of a row
generate_short_code(url_id) == ShortCodes[url_id]

\* a decoder that returns how many numbers the code holds, not the first
decode_short_code_count(short_code) ==
    With(hashids_decode(short_code), LAMBDA decoded :
      IF decoded # << >> THEN Some(Len(decoded)) ELSE None)

\* decode_short_code(short_code): decoded[0] if decoded else None
decode_short_code(short_code) ==
    With(hashids_decode(short_code), LAMBDA decoded :
      IF decoded # << >> THEN Some(decoded[1]) ELSE None)

\* the placeholder short_code written before the id is known
Placeholder == "temporary"

(***************************************************************************)
(* Credential guard.  bcrypt.hashpw embeds a fresh salt in the digest;     *)
(* bcrypt.checkpw recomputes the digest of the candidate under that salt.  *)
(***************************************************************************)
BcryptSalts == {"$2b$12$salt"}

bcrypt_hashpw(password, salt) == [salt |-> salt, of |-> password]

bcrypt_checkpw(password, hashed) == bcrypt_hashpw(password, hashed.salt) = hashed

\* verify_password answering True without comparing the digest
verify_password_no_compare(url, password) == TRUE

\* verify_password(url, password)
verify_password(url, password) ==
    IF url.password_hash = None
    THEN TRUE
    ELSE bcrypt_checkpw(password, url.password_hash[1])

(***************************************************************************)
(* Access policy: the methods of URL.                                      *)
(***************************************************************************)
\* is_expired() with >= for >: expired already at the instant expires_at
is_expired_at_boundary(self, t) ==
    IF self.expires_at # None
    THEN LET now_dt == utcnow(t)
             expires_at == self.expires_at[1]
         IN  IF expires_at.tzinfo = None
             THEN ~datetime_gt(expires_at, replace_tzinfo_none(now_dt))
             ELSE ~datetime_gt(expires_at, now_dt)
    ELSE FALSE

\* URL.is_expired(), the clock showing t when it is read
is_expired(self, t) ==
    IF self.expires_at # None
    THEN LET now_dt == utcnow(t)
             expires_at == self.expires_at[1]
         IN  IF expires_at.tzinfo = None
             THEN datetime_gt(replace_tzinfo_none(now_dt), expires_at)
             ELSE datetime_gt(now_dt, expires_at)
    ELSE FALSE

\* has_reached_max_clicks() with > for >=
has_reached_max_clicks_strict(self) ==
    IF self.max_clicks # None
    THEN self.click_count > self.max_clicks[1]
    ELSE FALSE

\* URL.has_reached_max_clicks()
has_reached_max_clicks(self) ==
    IF self.max_clicks # None
    THEN self.click_count >= self.max_clicks[1]
    ELSE FALSE

\* is_accessible() without the is_active conjunct
is_accessible_ignores_active(self, t) ==
    ~is_expired(self, t) /\ ~has_reached_max_clicks(self)

\* URL.is_accessible(), the clock showing t when is_expired() reads it
is_accessible(self, t) ==
    self.is_active /\ ~is_expired(self, t) /\ ~has_reached_max_clicks(self)


(***************************************************************************)
(* Request inputs.  The handlers receive validated values (schemas/url.py):*)
(* an alias of 3..50 characters over [a-zA-Z0-9_-], max_clicks > 0, a      *)
(* password of at least 4 characters.  A generated code is itself a valid  *)
(* alias.                                                                  *)
(***************************************************************************)
\* URLCreate(...)
URLCreate(long_url, custom_alias, expires_at, max_clicks, password) ==
    [long_url |-> long_url, custom_alias |-> custom_alias,
     title |-> None, description |-> None,
     expires_at |-> expires_at, max_clicks |-> max_clicks, password |-> password]

\* a request body that also gives title and description
Described(url_data, title, description) ==
    [url_data EXCEPT !.title = title, !.description = description]

Google == "https://www.google.com/"
Github == "https://www.github.com/"
Secret == "https://www.secret.com/"

\* the instant at which the rows that expire do
ExpiresAt == 0

\* the request bodies of POST /api/urls/shorten that vary the identifiers
AliasCreates ==
    {URLCreate(Google, None, None, None, None),
     URLCreate(Github, Some("test123"), None, Some(1), None),
     URLCreate(Github, Some(generate_short_code(1)), None, None, None),
     URLCreate(Github, Some(generate_short_code(2)), None, None, None)}

\* the request bodies that vary the access constraints
PolicyCreates ==
    {URLCreate(Google, None, None, None, None),
     URLCreate(Secret, Some("test123"), None, None, Some("mypassword")),
     URLCreate(Google, None, None, Some(2), None),
     URLCreate(Google, None, Some(datetime(ExpiresAt, Some(0))), None, None),
     URLCreate(Secret, None, Some(datetime(ExpiresAt, None)), Some(2), Some("mypassword"))}

\* the codes a redirect is asked for: the codes, an alias, a foreign string
Codes == {generate_short_code(i) : i \in Ids} \cup {"test123", "nonexistent123"}

\* the codes asked for where the access constraints vary
PolicyCodes == {generate_short_code(1), "test123", "nonexistent123"}

\* the password query parameter of a redirect: absent, empty, or a string
PasswordParams == {None, Some(""), Some("mypassword"), Some("wrongpassword")}

\* URLUpdate.model_dump(exclude_unset=True): the fields the request names,
\* a field named with null included
ActiveUpdates ==
    {[is_active |-> Some(FALSE)], [is_active |-> Some(TRUE)], [is_active |-> None]}

PolicyUpdates ==
    {[is_active |-> Some(FALSE)], [is_active |-> Some(TRUE)],
     [max_clicks |-> Some(1)], [expires_at |-> None, max_clicks |-> None]}

\* the request bodies whose rows the updates below change
DescribedCreates ==
    {Described(URLCreate(Google, None, None, None, None), Some("Google"), Some("Search")),
     URLCreate(Github, Some("test123"), Some(datetime(ExpiresAt, None)), Some(1), None)}

\* the updates that name each of the five fields, with a value or with null
FieldUpdates ==
    {[title |-> Some("Updated Title")],
     [title |-> None, description |-> Some("Updated")],
     [is_active |-> Some(FALSE)],
     [is_active |-> None],
     [expires_at |-> Some(datetime(ExpiresAt, Some(0))), max_clicks |-> Some(2)],
     [expires_at |-> None, max_clicks |-> None]}

(***************************************************************************)
(* State.                                                                  *)
(***************************************************************************)
VARIABLES
    urls,       \* the committed rows of table urls, by id
    nextId,     \* the next value of the primary-key sequence
    now,        \* the clock
    pc,         \* where each session's request stands
    req,        \* each session's request: its inputs, locals and response,
                \* and whether a statement of it had to wait (blocked)
    served,     \* history: the redirects answered 307, per row id
    updated,    \* history: whether update_url has changed the row
    deleted,    \* history: the ids on which delete_url has succeeded
    policy,     \* a URL object and what its methods returned (PolicySpec)
    codec       \* a call of the code generator or decoder (CodecSpec)

vars == <<urls, nextId, now, pc, req, served, updated, deleted, policy, codec>>

NoReq ==
    [op |-> "none", args |-> None, url |-> None, password_hash |-> None,
     t_gate |-> None, t_report |-> None, outcome |-> "none", location |-> None,
     result |-> None, blocked |-> FALSE]

\* no call of generate_short_code or decode_short_code made
NoCodec == [op |-> "none", url_id |-> None, short_code |-> None, decoded |-> None]

\* no URL object under evaluation
NoPolicy == [self |-> None, t |-> None, is_expired |-> None,
             has_reached_max_clicks |-> None, is_accessible |-> None]

Init ==
    /\ urls = << >>
    /\ nextId = 1
    /\ now = 0
    /\ pc = [p \in Procs |-> "idle"]
    /\ req = [p \in Procs |-> NoReq]
    /\ served = [i \in Ids |-> 0]
    /\ updated = [i \in Ids |-> FALSE]
    /\ deleted = {}
    /\ policy = NoPolicy
    /\ codec = NoCodec

\* the ids of the stored rows
Stored == DOMAIN urls

(***************************************************************************)
(* Queries.                                                                *)
(***************************************************************************)
\* query(URL).filter(...).first(): the query has no ORDER BY, so with several
\* matches the store may return any of them; the set of the possible results
First(ids) ==
    IF ids = {} THEN {None}
    ELSE {Some(urls[i]) : i \in ids}

\* the pre-check with the short_code column left out of the filter
AliasMatches_alias_column_only(alias) ==
    {i \in Stored : urls[i].custom_alias = Some(alias)}

\* the pre-check of create_short_url
AliasMatches(alias) ==
    {i \in Stored : urls[i].custom_alias = Some(alias) \/ urls[i].short_code = alias}

\* get_url_by_code(db, code)
CodeMatches(code) ==
    {i \in Stored : urls[i].short_code = code \/ urls[i].custom_alias = Some(code)}

get_url_by_code(code) == First(CodeMatches(code))

\* get_url_by_id(db, url_id)
get_url_by_id(url_id) == First({i \in Stored : i = url_id})

(***************************************************************************)
(* create_short_url.                                                       *)
(***************************************************************************)
\* URL(...) as create_short_url builds it (lines 112-124), with the id the
\* flush assigns
NewURL(id, url_data, password_hash) ==
    [id |-> id,
     long_url |-> url_data.long_url,
     short_code |-> Placeholder,
     custom_alias |-> url_data.custom_alias,
     title |-> url_data.title,
     description |-> url_data.description,
     expires_at |-> IF url_data.expires_at = None THEN None
                    ELSE Some(DateTimeColumn(url_data.expires_at[1])),
     max_clicks |-> url_data.max_clicks,
     password_hash |-> password_hash,
     is_active |-> TRUE,
     click_count |-> 0,
     last_accessed_at |-> None]

\* the alias pre-check of create_short_url: TRUE when the alias is taken
AliasTaken(url_data) ==
    /\ url_data.custom_alias # None
    /\ None \notin First(AliasMatches(url_data.custom_alias[1]))

\* the creates that passed the pre-check and have not committed
CreatesInFlight == {q \in Procs : pc[q] = "create_insert"}

\* POST /api/urls/shorten, up to the pre-check and the password hash
CreateStart(p, url_data, salt) ==
    /\ pc[p] = "idle"
    /\ AliasTaken(url_data) \/ nextId + Cardinality(CreatesInFlight) <= MaxId
    /\ IF AliasTaken(url_data)
       THEN /\ pc' = [pc EXCEPT ![p] = "done"]
            /\ req' = [req EXCEPT ![p] =
                        [NoReq EXCEPT !.op = "create", !.args = url_data,
                                      !.outcome = "conflict"]]
       ELSE /\ pc' = [pc EXCEPT ![p] = "create_insert"]
            /\ req' = [req EXCEPT ![p] =
                        [NoReq EXCEPT !.op = "create", !.args = url_data,
                            !.password_hash =
                                IF url_data.password = None THEN None
                                ELSE Some(bcrypt_hashpw(url_data.password[1], salt))]]
    /\ UNCHANGED <<urls, nextId, now, served, updated, deleted, policy, codec>>

\* a store with no unique index on custom_alias
UniqueViolation_short_code_only(row) ==
    \E i \in Stored : urls[i].short_code = row.short_code

\* the unique index of each column, checked when the row is written
UniqueViolation(row) ==
    \E i \in Stored :
        \/ urls[i].short_code = row.short_code
        \/ (row.custom_alias # None /\ urls[i].custom_alias = row.custom_alias)

\* the rows the transactions of the other sessions have written and not
\* committed: the INSERT of a create between db.flush and db.commit
Uncommitted(p) ==
    {req[q].url[1] : q \in {r \in Procs \ {p} : pc[r] = "create_commit"}}

\* the two rows have a key of a unique index in common
SameKey(a, b) ==
    \/ a.short_code = b.short_code
    \/ (a.custom_alias # None /\ a.custom_alias = b.custom_alias)

\* a store that fails the statement on a key held by an uncommitted row
\* instead of making it wait
WriteOutcome_fails_on_uncommitted(p, row) ==
    IF UniqueViolation(row) \/ \E other \in Uncommitted(p) : SameKey(row, other)
    THEN "IntegrityError"
    ELSE "written"

\* the statement of session p that writes row, under the store's unique
\* indexes: it waits while a row another transaction has not committed holds
\* one of its keys, fails when a committed row does, and is executed otherwise
WriteOutcome(p, row) ==
    IF \E other \in Uncommitted(p) : SameKey(row, other)
    THEN "wait"
    ELSE IF UniqueViolation(row) THEN "IntegrityError" ELSE "written"

\* new_url.short_code = generate_short_code(new_url.id) left out
Backfill_keeps_placeholder(flushed) == flushed

\* new_url.short_code = generate_short_code(new_url.id) (line 130)
Backfill(flushed) == [flushed EXCEPT !.short_code = generate_short_code(flushed.id)]

\* db.add and db.flush (lines 126-127): the INSERT of the row with the
\* placeholder, which assigns the id, inside the session's transaction; a
\* statement that breaks a unique index fails the request
CreateInsert(p) ==
    /\ pc[p] = "create_insert"
    /\ LET flushed == NewURL(nextId, req[p].args, req[p].password_hash)
           outcome == WriteOutcome(p, flushed)
       IN  CASE outcome = "wait" ->
                  /\ ~req[p].blocked
                  /\ req' = [req EXCEPT ![p].blocked = TRUE]
                  /\ UNCHANGED <<pc, nextId>>
             [] outcome = "IntegrityError" ->
                  /\ req' = [req EXCEPT ![p].outcome = "internal_error"]
                  /\ pc' = [pc EXCEPT ![p] = "done"]
                  /\ nextId' = nextId + 1
             [] outcome = "written" ->
                  /\ req' = [req EXCEPT ![p].url = Some(flushed)]
                  /\ pc' = [pc EXCEPT ![p] = "create_commit"]
                  /\ nextId' = nextId + 1
    /\ UNCHANGED <<urls, now, served, updated, deleted, policy, codec>>

\* the short_code backfill (line 130), whose UPDATE db.commit flushes,
\* db.commit and db.refresh (lines 132-133): the row becomes visible to the
\* other sessions with the generated code; when the UPDATE breaks a unique
\* index the request fails and the transaction is rolled back
CreateCommit(p) ==
    /\ pc[p] = "create_commit"
    /\ LET new_url == Backfill(req[p].url[1])
           outcome == WriteOutcome(p, new_url)
       IN  /\ outcome # "wait"
           /\ IF outcome = "IntegrityError"
              THEN /\ urls' = urls
                   /\ req' = [req EXCEPT ![p].outcome = "internal_error",
                                         ![p].url = None]
              ELSE /\ urls' = urls @@ (new_url.id :> new_url)
                   /\ req' = [req EXCEPT ![p].outcome = "created",
                                         ![p].url = Some(new_url)]
    /\ pc' = [pc EXCEPT ![p] = "done"]
    /\ UNCHANGED <<nextId, now, served, updated, deleted, policy, codec>>

(***************************************************************************)
(* redirect_to_url.                                                        *)
(***************************************************************************)
\* the response of a finished request
Respond(p, outcome) == [req[p] EXCEPT !.outcome = outcome]

\* GET /{code}: the lookup (line 159)
RedirectStart(p, code, password) ==
    /\ pc[p] = "idle"
    /\ \E url \in get_url_by_code(code) :
       LET r == [NoReq EXCEPT !.op = "redirect",
                              !.args = [code |-> code, password |-> password],
                              !.url = url]
       IN  IF url = None
           THEN /\ pc' = [pc EXCEPT ![p] = "done"]
                /\ req' = [req EXCEPT ![p] = [r EXCEPT !.outcome = "not_found"]]
           ELSE /\ url[1].click_count < MaxClickCount
                /\ pc' = [pc EXCEPT ![p] = "redirect_gate"]
                /\ req' = [req EXCEPT ![p] = r]
    /\ UNCHANGED <<urls, nextId, now, served, updated, deleted, policy, codec>>

\* the password check asking only that a password is supplied
PasswordCheck_presence_only(url, password) ==
    IF url.password_hash # None /\ (password = None \/ password = Some(""))
    THEN "unauthorized"
    ELSE "pass"

\* the password check (lines 184-194): the error it raises, or "pass"
PasswordCheck(url, password) ==
    IF url.password_hash # None
    THEN IF password = None \/ password = Some("")
         THEN "unauthorized"
         ELSE IF ~verify_password(url, password[1])
              THEN "unauthorized"
              ELSE "pass"
    ELSE "pass"

\* after the gate: the password check, then on to the click increment;
\* t_gate and t_report are the clock readings of the policy evaluations
AfterGate(p, t_gate, t_report) ==
    LET url == req[p].url[1]
        check == PasswordCheck(url, req[p].args.password)
        r == [req[p] EXCEPT !.t_gate = t_gate, !.t_report = t_report]
    IN  IF check = "pass"
        THEN /\ pc' = [pc EXCEPT ![p] = "redirect_commit"]
             /\ req' = [req EXCEPT ![p] = r]
        ELSE /\ pc' = [pc EXCEPT ![p] = "done"]
             /\ req' = [req EXCEPT ![p] = [r EXCEPT !.outcome = check]]

\* url.is_accessible() (line 167), and the is_active test of line 168,
\* which reads no clock
RedirectGate(p) ==
    /\ pc[p] = "redirect_gate"
    /\ LET url == req[p].url[1]
       IN  IF ~is_accessible(url, now)
           THEN IF ~url.is_active
                THEN /\ pc' = [pc EXCEPT ![p] = "done"]
                     /\ req' = [req EXCEPT ![p] =
                                 [Respond(p, "gone_deactivated") EXCEPT !.t_gate = Some(now)]]
                ELSE /\ pc' = [pc EXCEPT ![p] = "redirect_report"]
                     /\ req' = [req EXCEPT ![p].t_gate = Some(now)]
           ELSE AfterGate(p, Some(now), None)
    /\ UNCHANGED <<urls, nextId, now, served, updated, deleted, policy, codec>>

\* the report testing has_reached_max_clicks() before is_expired()
RedirectReport_clicks_first(p) ==
    /\ pc[p] = "redirect_report"
    /\ LET url == req[p].url[1]
       IN  IF has_reached_max_clicks(url)
           THEN /\ pc' = [pc EXCEPT ![p] = "done"]
                /\ req' = [req EXCEPT ![p] =
                            [Respond(p, "gone_max_clicks") EXCEPT !.t_report = Some(now)]]
           ELSE IF is_expired(url, now)
                THEN /\ pc' = [pc EXCEPT ![p] = "done"]
                     /\ req' = [req EXCEPT ![p] =
                                 [Respond(p, "gone_expired") EXCEPT !.t_report = Some(now)]]
                ELSE AfterGate(p, req[p].t_gate, Some(now))
    /\ UNCHANGED <<urls, nextId, now, served, updated, deleted, policy, codec>>

\* the gate was closed and the row is active: is_expired() reads the clock
\* again (line 173), then has_reached_max_clicks() (line 178); when neither
\* holds now the handler goes on to the password check
RedirectReport(p) ==
    /\ pc[p] = "redirect_report"
    /\ LET url == req[p].url[1]
       IN  IF is_expired(url, now)
           THEN /\ pc' = [pc EXCEPT ![p] = "done"]
                /\ req' = [req EXCEPT ![p] =
                            [Respond(p, "gone_expired") EXCEPT !.t_report = Some(now)]]
           ELSE IF has_reached_max_clicks(url)
                THEN /\ pc' = [pc EXCEPT ![p] = "done"]
                     /\ req' = [req EXCEPT ![p] =
                                 [Respond(p, "gone_max_clicks") EXCEPT !.t_report = Some(now)]]
                ELSE AfterGate(p, req[p].t_gate, Some(now))
    /\ UNCHANGED <<urls, nextId, now, served, updated, deleted, policy, codec>>

\* the increment without the assignment to last_accessed_at
increment_click_count_count_only(row, url, t) ==
    [row EXCEPT !.click_count = url.click_count + 1]

\* increment_click_count(db, url): the session writes the attributes it
\* changed, click_count as loaded plus one and last_accessed_at
increment_click_count(row, url, t) ==
    [row EXCEPT !.click_count = url.click_count + 1,
                !.last_accessed_at = Some(DateTimeColumn(utcnow(t)))]

\* line 196 and the response of line 198; the UPDATE of a row that was
\* deleted meanwhile matches nothing and the commit fails
RedirectCommit(p) ==
    /\ pc[p] = "redirect_commit"
    /\ LET url == req[p].url[1]
       IN  IF url.id \in Stored
           THEN /\ urls' = [urls EXCEPT ![url.id] = increment_click_count(@, url, now)]
                /\ served' = [served EXCEPT ![url.id] = @ + 1]
                /\ req' = [req EXCEPT ![p] =
                            [Respond(p, "redirect") EXCEPT !.location = Some(url.long_url)]]
           ELSE /\ req' = [req EXCEPT ![p] = Respond(p, "internal_error")]
                /\ UNCHANGED <<urls, served>>
    /\ pc' = [pc EXCEPT ![p] = "done"]
    /\ UNCHANGED <<nextId, now, updated, deleted, policy, codec>>

(***************************************************************************)
(* The read-only handlers: get_url_info, get_statistics and list_urls.     *)
(***************************************************************************)
\* GET /api/urls/{code}: the row as the lookup returns it, or 404
GetUrlInfo(p, code) ==
    /\ pc[p] = "idle"
    /\ \E url \in get_url_by_code(code) :
         req' = [req EXCEPT ![p] =
                  [NoReq EXCEPT !.op = "get", !.args = [code |-> code], !.url = url,
                                !.outcome = IF url = None THEN "not_found" ELSE "ok",
                                !.result = url]]
    /\ pc' = [pc EXCEPT ![p] = "done"]
    /\ UNCHANGED <<urls, nextId, now, served, updated, deleted, policy, codec>>

\* GET /api/urls/{code}/stats: the lookup of get_url_stats, and the fields
\* URLStats copies from the row
StatsStart(p, code) ==
    /\ pc[p] = "idle"
    /\ \E url \in get_url_by_code(code) :
         LET r == [NoReq EXCEPT !.op = "stats", !.args = [code |-> code], !.url = url]
         IN  IF url = None
             THEN /\ pc' = [pc EXCEPT ![p] = "done"]
                  /\ req' = [req EXCEPT ![p] = [r EXCEPT !.outcome = "not_found"]]
             ELSE /\ pc' = [pc EXCEPT ![p] = "stats_flags"]
                  /\ req' = [req EXCEPT ![p] =
                              [r EXCEPT !.result =
                                  Some([id |-> url[1].id,
                                        short_code |-> url[1].short_code,
                                        long_url |-> url[1].long_url,
                                        click_count |-> url[1].click_count,
                                        is_active |-> url[1].is_active,
                                        last_accessed_at |-> url[1].last_accessed_at,
                                        expires_at |-> url[1].expires_at])]]
    /\ UNCHANGED <<urls, nextId, now, served, updated, deleted, policy, codec>>

\* is_expired=url.is_expired() (line 205) and
\* has_reached_max_clicks=url.has_reached_max_clicks() (line 206)
StatsFlags(p) ==
    /\ pc[p] = "stats_flags"
    /\ LET url == req[p].url[1]
       IN  req' = [req EXCEPT ![p].result =
                    Some(req[p].result[1] @@
                         [is_expired |-> is_expired(url, now),
                          has_reached_max_clicks |-> has_reached_max_clicks(url)])]
    /\ pc' = [pc EXCEPT ![p] = "stats_accessible"]
    /\ UNCHANGED <<urls, nextId, now, served, updated, deleted, policy, codec>>

\* is_accessible=url.is_accessible() (line 207), which reads the clock again
StatsAccessible(p) ==
    /\ pc[p] = "stats_accessible"
    /\ LET url == req[p].url[1]
       IN  req' = [req EXCEPT ![p].result =
                    Some(req[p].result[1] @@ [is_accessible |-> is_accessible(url, now)]),
                              ![p].outcome = "ok"]
    /\ pc' = [pc EXCEPT ![p] = "done"]
    /\ UNCHANGED <<urls, nextId, now, served, updated, deleted, policy, codec>>

\* GET /api/urls/?active_only=...: get_all_urls with the default skip and
\* limit; the ids of the rows returned
ListUrls(p, active_only) ==
    /\ pc[p] = "idle"
    /\ req' = [req EXCEPT ![p] =
                [NoReq EXCEPT !.op = "list", !.args = [active_only |-> active_only],
                              !.outcome = "ok",
                              !.result = Some({i \in Stored :
                                                 active_only => urls[i].is_active})]]
    /\ pc' = [pc EXCEPT ![p] = "done"]
    /\ UNCHANGED <<urls, nextId, now, served, updated, deleted, policy, codec>>

(***************************************************************************)
(* update_url and delete_url.  Each loads the row by id and commits at     *)
(* once; the session writes only the attributes the handler set.           *)
(***************************************************************************)
\* an update that also writes the counter back as zero
ApplyUpdate_resets_click_count(row, update_data) ==
    [f \in DOMAIN row |->
        IF f \in DOMAIN update_data
        THEN CASE f = "is_active" -> update_data[f][1]
               [] f = "expires_at" ->
                    IF update_data[f] = None THEN None
                    ELSE Some(DateTimeColumn(update_data[f][1]))
               [] OTHER -> update_data[f]
        ELSE IF f = "click_count" THEN 0 ELSE row[f]]

\* setattr(url, field, value) for every field of update_data
ApplyUpdate(row, update_data) ==
    [f \in DOMAIN row |->
        IF f \in DOMAIN update_data
        THEN CASE f = "is_active" -> update_data[f][1]
               [] f = "expires_at" ->
                    IF update_data[f] = None THEN None
                    ELSE Some(DateTimeColumn(update_data[f][1]))
               [] OTHER -> update_data[f]
        ELSE row[f]]

\* is_active is NOT NULL: a null written to it fails the commit
NotNullViolation(update_data) ==
    "is_active" \in DOMAIN update_data /\ update_data["is_active"] = None

\* PATCH /api/urls/{url_id}
UpdateUrl(p, url_id, update_data) ==
    /\ pc[p] = "idle"
    /\ \E url \in get_url_by_id(url_id) :
       LET r == [NoReq EXCEPT !.op = "update",
                              !.args = [url_id |-> url_id, update_data |-> update_data],
                              !.url = url]
       IN  IF url = None
           THEN /\ req' = [req EXCEPT ![p] = [r EXCEPT !.outcome = "not_found"]]
                /\ UNCHANGED <<urls, updated>>
           ELSE IF NotNullViolation(update_data)
                THEN /\ req' = [req EXCEPT ![p] = [r EXCEPT !.outcome = "internal_error"]]
                     /\ UNCHANGED <<urls, updated>>
                ELSE /\ urls' = [urls EXCEPT ![url_id] = ApplyUpdate(@, update_data)]
                     /\ updated' = [updated EXCEPT ![url_id] = TRUE]
                     /\ req' = [req EXCEPT ![p] =
                                 [r EXCEPT !.outcome = "ok", !.url = Some(urls'[url_id])]]
    /\ pc' = [pc EXCEPT ![p] = "done"]
    /\ UNCHANGED <<nextId, now, served, deleted, policy, codec>>

\* DELETE /api/urls/{url_id}?hard_delete=...
DeleteUrl(p, url_id, hard_delete) ==
    /\ pc[p] = "idle"
    /\ \E url \in get_url_by_id(url_id) :
       LET soft_delete == ~hard_delete
           r == [NoReq EXCEPT !.op = "delete",
                              !.args = [url_id |-> url_id, hard_delete |-> hard_delete],
                              !.url = url]
       IN  IF url = None
           THEN /\ req' = [req EXCEPT ![p] = [r EXCEPT !.outcome = "not_found"]]
                /\ UNCHANGED <<urls, deleted>>
           ELSE /\ req' = [req EXCEPT ![p] = [r EXCEPT !.outcome = "no_content"]]
                /\ deleted' = deleted \cup {url_id}
                /\ IF soft_delete
                   THEN urls' = [urls EXCEPT ![url_id].is_active = FALSE]
                   ELSE urls' = [i \in Stored \ {url_id} |-> urls[i]]
    /\ pc' = [pc EXCEPT ![p] = "done"]
    /\ UNCHANGED <<nextId, now, served, updated, policy, codec>>

(***************************************************************************)
(* The response is sent and the session closed; the clock.                 *)
(***************************************************************************)
Return(p) ==
    /\ pc[p] = "done"
    /\ pc' = [pc EXCEPT ![p] = "idle"]
    /\ req' = [req EXCEPT ![p] = NoReq]
    /\ UNCHANGED <<urls, nextId, now, served, updated, deleted, policy, codec>>

\* a clock that can also be set back
Tick_set_back ==
    /\ \E t \in (0..MaxNow) \ {now} : now' = t
    /\ UNCHANGED <<urls, nextId, pc, req, served, updated, deleted, policy, codec>>

Tick ==
    /\ now < MaxNow
    /\ now' = now + 1
    /\ UNCHANGED <<urls, nextId, pc, req, served, updated, deleted, policy, codec>>

(***************************************************************************)
(* Specifications.  Each runs the handlers above over the inputs of one    *)
(* profile: the sessions that serve requests and the request values.       *)
(***************************************************************************)
Profile(sessions, creates, codes, passwords, updates) ==
    [sessions |-> sessions, creates |-> creates, codes |-> codes,
     passwords |-> passwords, updates |-> updates]

\* one step of session p
Step(p, P) ==
    \/ \E url_data \in P.creates, salt \in BcryptSalts : CreateStart(p, url_data, salt)
    \/ CreateInsert(p)
    \/ CreateCommit(p)
    \/ \E code \in P.codes, password \in P.passwords : RedirectStart(p, code, password)
    \/ RedirectGate(p)
    \/ RedirectReport(p)
    \/ RedirectCommit(p)
    \/ \E code \in P.codes : GetUrlInfo(p, code)
    \/ \E code \in P.codes : StatsStart(p, code)
    \/ StatsFlags(p)
    \/ StatsAccessible(p)
    \/ \E active_only \in BOOLEAN : ListUrls(p, active_only)
    \/ \E url_id \in Ids, update_data \in P.updates : UpdateUrl(p, url_id, update_data)
    \/ \E url_id \in Ids, hard_delete \in BOOLEAN : DeleteUrl(p, url_id, hard_delete)
    \/ Return(p)

Next(P) == Tick \/ \E p \in P.sessions : Step(p, P)

\* one session, requests one after another; the identifiers vary
LifecycleProfile == Profile({"s1"}, AliasCreates, Codes, {None}, ActiveUpdates)

Spec == Init /\ [][Next(LifecycleProfile)]_vars

\* one session, requests one after another; the access constraints vary
RedirectProfile == Profile({"s1"}, PolicyCreates, PolicyCodes, PasswordParams, PolicyUpdates)

RedirectSpec == Init /\ [][Next(RedirectProfile)]_vars

\* one session; the updates name every updatable field
UpdateProfile ==
    Profile({"s1"}, DescribedCreates, {"test123"}, {None}, FieldUpdates)

UpdateSpec == Init /\ [][Next(UpdateProfile)]_vars

\* two sessions whose requests interleave
ConcurrentProfile ==
    Profile(Procs, {URLCreate(Google, None, None, Some(2), None)},
            {generate_short_code(1), "nonexistent123"}, {None},
            {[is_active |-> Some(FALSE)]})

ConcurrentSpec == Init /\ [][Next(ConcurrentProfile)]_vars

\* two sessions whose creates ask for the same alias, or for none; the
\* lookups ask for the alias and for the placeholder
RaceProfile ==
    Profile(Procs,
            {URLCreate(Github, Some("test123"), None, Some(1), None),
             URLCreate(Google, None, None, None, None)},
            {"test123", Placeholder}, {None}, {[is_active |-> Some(FALSE)]})

RaceSpec == Init /\ [][Next(RaceProfile)]_vars

(***************************************************************************)
(* The access policy on its own: a URL object with any field values, its   *)
(* three methods called while the clock runs.                              *)
(***************************************************************************)
PolicyDatetimes ==
    {datetime(wall, tzinfo) : wall \in 0..(MaxNow + 1), tzinfo \in {None, Some(0), Some(1)}}

PolicyURLs ==
    [is_active : BOOLEAN,
     expires_at : {None} \cup {Some(e) : e \in PolicyDatetimes},
     max_clicks : {None} \cup {Some(n) : n \in 1..MaxClickCount},
     click_count : 0..MaxClickCount]

PolicyInit ==
    /\ urls = << >>
    /\ nextId = 1
    /\ now = 0
    /\ pc = [p \in Procs |-> "idle"]
    /\ req = [p \in Procs |-> NoReq]
    /\ served = [i \in Ids |-> 0]
    /\ updated = [i \in Ids |-> FALSE]
    /\ deleted = {}
    /\ policy \in {[NoPolicy EXCEPT !.self = Some(self)] : self \in PolicyURLs}
    /\ codec = NoCodec

\* is_expired(), has_reached_max_clicks(), is_accessible() on the object
PolicyEval ==
    /\ policy.self # None
    /\ policy.t = None
    /\ LET self == policy.self[1]
       IN  policy' = [policy EXCEPT
                        !.t = Some(now),
                        !.is_expired = Some(is_expired(self, now)),
                        !.has_reached_max_clicks = Some(has_reached_max_clicks(self)),
                        !.is_accessible = Some(is_accessible(self, now))]
    /\ UNCHANGED <<urls, nextId, now, pc, req, served, updated, deleted, codec>>

PolicyNext == Tick \/ PolicyEval

PolicySpec == PolicyInit /\ [][PolicyNext]_vars

(***************************************************************************)
(* The code generator and decoder on their own: codes are generated for    *)
(* ids and decoded back, and strings of any origin are decoded.            *)
(***************************************************************************)
\* the ids a code is generated for: the first ones, and ids whose code
\* needs no padding to reach the minimum length
UrlIds == (1..MaxUrlId) \cup {164916223, 164916224, 2147483647}

\* strings given to decode_short_code that generate_short_code does not
\* produce: empty, malformed, foreign characters, an alias, the
\* placeholder, codes of several numbers
ForeignStrings ==
    {<< >>,
     SubSeq(short_code_chars(1), 1, 5),
     Append(short_code_chars(1), "y"),
     Tail(short_code_chars(2)),
     <<"t", "e", "s", "t", "1", "2", "3">>,
     <<"m", "y", "-", "g", "i", "t", "h", "u", "b">>,
     <<"t", "e", "m", "p", "o", "r", "a", "r", "y">>,
     <<"0", "0", "0", "0", "0", "0">>,
     hashids_encode(<<1, 2>>),
     hashids_encode(<<5, 7, 9>>)}

\* generate_short_code(url_id)
GenerateShortCode ==
    /\ codec.op = "none"
    /\ \E url_id \in UrlIds :
         codec' = [NoCodec EXCEPT !.op = "generate", !.url_id = Some(url_id),
                                  !.short_code = Some(short_code_chars(url_id))]
    /\ UNCHANGED <<urls, nextId, now, pc, req, served, updated, deleted, policy>>

\* decode_short_code(short_code) on a generated code
DecodeShortCode ==
    /\ codec.op = "generate"
    /\ codec' = [codec EXCEPT !.op = "decode",
                              !.decoded = Some(decode_short_code(codec.short_code[1]))]
    /\ UNCHANGED <<urls, nextId, now, pc, req, served, updated, deleted, policy>>

\* decode_short_code(short_code) on a string of another origin
DecodeString ==
    /\ codec.op = "none"
    /\ \E string \in ForeignStrings :
         codec' = [NoCodec EXCEPT !.op = "decode", !.short_code = Some(string),
                                  !.decoded = Some(decode_short_code(string))]
    /\ UNCHANGED <<urls, nextId, now, pc, req, served, updated, deleted, policy>>

CodecNext == GenerateShortCode \/ DecodeShortCode \/ DecodeString

CodecSpec == Init /\ [][CodecNext]_vars

(***************************************************************************)
(* Properties.  The notions the properties are stated in, written from     *)
(* the specification's words rather than from the code.                    *)
(***************************************************************************)
\* the instant a datetime denotes; a naive one is taken to be in UTC
Instant(dt) == IF dt.tzinfo = None THEN dt.wall ELSE dt.wall - dt.tzinfo[1]

\* expired: expires_at is set and t is strictly after it
Expired(url, t) == url.expires_at # None /\ t > Instant(url.expires_at[1])

\* click-exhausted: max_clicks is set and click_count >= max_clicks
ClickExhausted(url) == url.max_clicks # None /\ url.click_count >= url.max_clicks[1]

\* accessible: none of deactivated, expired, click-exhausted
Accessible(url, t) == url.is_active /\ ~Expired(url, t) /\ ~ClickExhausted(url)

\* the supplied password is present and is the one the digest was made of
PasswordVerifies(url, password) ==
    password # None /\ url.password_hash[1].of = password[1]

\* the identifiers of a row
Identifiers(row) ==
    {row.short_code} \cup (IF row.custom_alias = None THEN {} ELSE {row.custom_alias[1]})

\* session p takes a step
Steps(p) == pc'[p] # pc[p] \/ req'[p] # req[p]

\* session p has answered a request of kind op
Answered(p, op) == pc[p] = "done" /\ req[p].op = op

(* C1: create_short_url with a custom_alias that is the custom_alias or the
   short_code of a stored row, active or soft-deleted, answers conflict and
   leaves the store as it was: no row is added and no id is drawn. *)
C1_AliasConflictRejected ==
    [][\A p \in Procs :
        ( /\ pc[p] = "idle"
          /\ req'[p].op = "create"
          /\ req'[p].args.custom_alias # None
          /\ \E i \in DOMAIN urls : req'[p].args.custom_alias[1] \in Identifiers(urls[i]) )
        => ( /\ pc'[p] = "done"
             /\ req'[p].outcome = "conflict"
             /\ urls' = urls
             /\ nextId' = nextId )]_vars

\* a create was answered conflict for an alias that is the short_code of a
\* soft-deleted row
C1_Witness ==
    \E p \in Procs :
        /\ Answered(p, "create")
        /\ req[p].outcome = "conflict"
        /\ \E i \in DOMAIN urls :
              /\ ~urls[i].is_active
              /\ urls[i].short_code = req[p].args.custom_alias[1]

(* C2: in every reachable state no string is an identifier (short_code or
   custom_alias) of two different stored rows. *)
C2_IdentifiersUnique ==
    \A i, j \in DOMAIN urls :
        i # j => Identifiers(urls[i]) \cap Identifiers(urls[j]) = {}

(* C3: click accounting is exactly-once: the click_count of a stored row
   equals the number of redirects of that row answered successfully. *)
C3_ClicksExactlyOnce ==
    \A i \in DOMAIN urls : urls[i].click_count = served[i]

(* C4: for a redirect on a row that is found and accessible, the outcome is
   unauthorized if and only if the row has a password_hash and the supplied
   password is missing or does not verify; otherwise the outcome is the
   redirect to the row's long_url. *)
C4_PasswordGate ==
    \A p \in Procs :
        ( /\ Answered(p, "redirect")
          /\ req[p].url # None
          /\ Accessible(req[p].url[1], req[p].t_gate[1]) )
        => LET url == req[p].url[1]
               refused == /\ url.password_hash # None
                          /\ ~PasswordVerifies(url, req[p].args.password)
           IN  /\ (req[p].outcome = "unauthorized") <=> refused
               /\ ~refused => /\ req[p].outcome = "redirect"
                              /\ req[p].location = Some(url.long_url)

\* a protected, accessible row was asked for with its password and the
\* answer is the redirect to its long_url
C4_Witness ==
    \E p \in Procs :
        /\ Answered(p, "redirect")
        /\ req[p].url # None
        /\ req[p].url[1].password_hash # None
        /\ req[p].args.password = Some("mypassword")
        /\ req[p].outcome = "redirect"
        /\ req[p].location = Some(Secret)

(* C5: a redirect request that ends in not-found, gone or unauthorized
   changes no field of any row; click_count and last_accessed_at of a row
   change only in the step of a redirect of that row that passed the access
   policy and the password check. *)
C5_RefusedRedirectWritesNothing ==
    [][/\ \A p \in Procs :
            (Steps(p) /\ req'[p].op = "redirect" /\ req'[p].outcome # "redirect")
            => urls' = urls
       /\ \A i \in DOMAIN urls \cap DOMAIN urls' :
            ( \/ urls'[i].click_count # urls[i].click_count
              \/ urls'[i].last_accessed_at # urls[i].last_accessed_at )
            => \E p \in Procs :
                 /\ Steps(p)
                 /\ req'[p].op = "redirect"
                 /\ req'[p].outcome = "redirect"
                 /\ req'[p].url[1].id = i
                 /\ Accessible(req'[p].url[1], req'[p].t_gate[1])
                 /\ \/ req'[p].url[1].password_hash = None
                    \/ PasswordVerifies(req'[p].url[1], req'[p].args.password)]_vars

\* a redirect with a wrong password was answered unauthorized on a row that
\* had been clicked before, and the row still shows that one click
C5_Witness ==
    \E p \in Procs :
        /\ Answered(p, "redirect")
        /\ req[p].outcome = "unauthorized"
        /\ req[p].args.password = Some("wrongpassword")
        /\ req[p].url[1].id \in DOMAIN urls
        /\ urls[req[p].url[1].id].click_count = 1
        /\ urls[req[p].url[1].id].last_accessed_at # None

(* C6: for an active, unexpired, unprotected row created with max_clicks = n
   and not updated since, redirects issued one after another: a redirect
   succeeds when fewer than n were served before it, and every later one is
   answered gone with the click-exhausted reason. *)
C6_MaxClicksSequence ==
    \A p \in Procs :
        ( /\ Answered(p, "redirect")
          /\ req[p].url # None
          /\ req[p].url[1].is_active
          /\ req[p].url[1].password_hash = None
          /\ ~Expired(req[p].url[1], now)
          /\ req[p].url[1].max_clicks # None
          /\ ~updated[req[p].url[1].id] )
        => LET url == req[p].url[1]
               n == url.max_clicks[1]
               before == IF req[p].outcome = "redirect"
                         THEN served[url.id] - 1 ELSE served[url.id]
           IN  IF before < n
               THEN req[p].outcome = "redirect"
               ELSE req[p].outcome = "gone_max_clicks"

\* a row created with max_clicks = 2 has served two redirects and the
\* third is answered gone, click-exhausted
C6_Witness ==
    \E p \in Procs :
        /\ Answered(p, "redirect")
        /\ req[p].outcome = "gone_max_clicks"
        /\ req[p].url[1].max_clicks = Some(2)
        /\ ~updated[req[p].url[1].id]
        /\ served[req[p].url[1].id] = 2

\* the clock reading the reported outcome rests on: that of the second
\* evaluation when the handler made one
OutcomeTime(r) == IF r.t_report # None THEN r.t_report[1] ELSE r.t_gate[1]

\* the outcome the fixed priority gives
PriorityOutcome(r) ==
    IF r.url = None THEN "not_found"
    ELSE LET url == r.url[1]
             t == OutcomeTime(r)
         IN  CASE ~url.is_active -> "gone_deactivated"
               [] url.is_active /\ Expired(url, t) -> "gone_expired"
               [] url.is_active /\ ~Expired(url, t) /\ ClickExhausted(url) -> "gone_max_clicks"
               [] Accessible(url, t) /\ url.password_hash # None
                    /\ ~PasswordVerifies(url, r.args.password) -> "unauthorized"
               [] OTHER -> "redirect"

(* C7: the outcome of a redirect follows a fixed priority, first applicable
   wins: not-found, gone/deactivated, gone/expired, gone/click-exhausted,
   unauthorized; a row that is not accessible is answered gone whatever
   password is supplied. *)
C7_OutcomePriority ==
    \A p \in Procs :
        Answered(p, "redirect") => req[p].outcome = PriorityOutcome(req[p])

\* a protected row that is inactive, expired and asked for with its
\* password is answered gone, deactivated
C7_Witness ==
    \E p \in Procs :
        /\ Answered(p, "redirect")
        /\ req[p].url # None
        /\ ~req[p].url[1].is_active
        /\ Expired(req[p].url[1], req[p].t_gate[1])
        /\ req[p].url[1].password_hash # None
        /\ req[p].args.password = Some("mypassword")
        /\ req[p].outcome = "gone_deactivated"

(* C8: for every URL object and every time, is_accessible() is true exactly
   when the object is active, not expired and not click-exhausted; it is
   false whenever is_active is false, whatever the other fields. *)
C8_AccessibleIffNoReason ==
    policy.t # None =>
        LET self == policy.self[1]
            t == policy.t[1]
        IN  /\ policy.is_accessible[1] =
                 (self.is_active /\ ~Expired(self, t) /\ ~ClickExhausted(self))
            /\ ~self.is_active => policy.is_accessible[1] = FALSE

\* an inactive object with no expiry and no click cap was evaluated and is
\* not accessible
C8_Witness ==
    /\ policy.t # None
    /\ ~policy.self[1].is_active
    /\ policy.self[1].expires_at = None
    /\ policy.self[1].max_clicks = None
    /\ policy.is_accessible = Some(FALSE)

(* C9: expiry is strict and boundary-inclusive: an active object under its
   click cap with expires_at set is accessible at every time up to and
   including expires_at and inaccessible at every later time; an object with
   no expires_at never expires. *)
C9_ExpiryBoundary ==
    policy.t # None =>
        LET self == policy.self[1]
            t == policy.t[1]
        IN  /\ (self.is_active /\ ~ClickExhausted(self) /\ self.expires_at # None)
               => (policy.is_accessible[1] <=> t <= Instant(self.expires_at[1]))
            /\ self.expires_at = None => policy.is_expired[1] = FALSE

\* an active object under its cap, expiring at an instant given with a UTC
\* offset, was evaluated at exactly that instant and is accessible
C9_Witness ==
    /\ policy.t # None
    /\ policy.self[1].is_active
    /\ ~ClickExhausted(policy.self[1])
    /\ policy.self[1].expires_at # None
    /\ policy.self[1].expires_at[1].tzinfo = Some(1)
    /\ policy.t[1] = Instant(policy.self[1].expires_at[1])
    /\ policy.is_accessible = Some(TRUE)

(* C10: for an active, unexpired object, is_accessible() is false exactly
   when max_clicks is set and click_count >= max_clicks (equal counts deny);
   an object with no max_clicks is never click-exhausted. *)
C10_ClickCapBoundary ==
    policy.t # None =>
        LET self == policy.self[1]
            t == policy.t[1]
        IN  /\ (self.is_active /\ ~Expired(self, t))
               => ( policy.is_accessible[1] = FALSE
                    <=> ( /\ self.max_clicks # None
                          /\ self.click_count >= self.max_clicks[1] ) )
            /\ self.max_clicks = None => policy.has_reached_max_clicks[1] = FALSE

\* an active, unexpired object whose click_count equals its max_clicks was
\* evaluated and is not accessible
C10_Witness ==
    /\ policy.t # None
    /\ policy.self[1].is_active
    /\ ~Expired(policy.self[1], policy.t[1])
    /\ policy.self[1].max_clicks = Some(2)
    /\ policy.self[1].click_count = 2
    /\ policy.is_accessible = Some(FALSE)

\* session p's delete request succeeds in this step, hard or soft
Deletes(p, hard_delete) ==
    /\ pc[p] = "idle"
    /\ pc'[p] = "done"
    /\ req'[p].op = "delete"
    /\ req'[p].args.hard_delete = hard_delete
    /\ req'[p].outcome = "no_content"

(* C11: a soft delete of a stored row sets is_active to false and leaves
   every other field as it was, and after it a lookup by the row's
   short_code or by its custom_alias returns that row, with is_active
   false. *)
C11_SoftDeleteKeepsRecord ==
    [][\A p \in Procs :
        Deletes(p, FALSE)
        => LET i == req'[p].args.url_id
           IN  /\ i \in DOMAIN urls'
               /\ urls'[i] = [urls[i] EXCEPT !.is_active = FALSE]
               /\ \A c \in Identifiers(urls[i]) :
                    get_url_by_code(c)' = {Some(urls'[i])}]_vars

(* C12: a hard delete of a stored row removes it and releases its
   identifiers: after it a lookup by its former short_code or custom_alias
   returns no row, and a create asking for its former custom_alias passes
   the alias pre-check. *)
C12_HardDeleteReleasesIdentifiers ==
    [][\A p \in Procs :
        Deletes(p, TRUE)
        => LET i == req'[p].args.url_id
           IN  /\ i \notin DOMAIN urls'
               /\ \A c \in Identifiers(urls[i]) : get_url_by_code(c)' = {None}
               /\ \A c \in Identifiers(urls[i]) \ {urls[i].short_code} :
                    AliasMatches(c)' = {}]_vars

(* C13: in both delete modes, once a delete of a row has succeeded every
   further delete of the same id answers not-found; a delete of an id that
   resolves to no row answers not-found and changes nothing. *)
C13_RepeatedDeleteNotFound ==
    [][\A p \in Procs :
        ( /\ pc[p] = "idle"
          /\ req'[p].op = "delete"
          /\ \/ req'[p].args.url_id \in deleted
             \/ req'[p].args.url_id \notin DOMAIN urls )
        => ( /\ req'[p].outcome = "not_found"
             /\ urls' = urls )]_vars

\* the row holds in field f the request value v; is_active holds a
\* boolean, which null is not
Holds(row, f, v) ==
    CASE f = "is_active" -> v # None /\ row[f] = v[1]
      [] f = "expires_at" -> row[f] = (IF v = None THEN None
                                       ELSE Some(DateTimeColumn(v[1])))
      [] OTHER -> row[f] = v

(* C14: update_url on a stored row sets every field that the request names
   (among title, description, is_active, expires_at, max_clicks) to the
   value given, and leaves every other field of the row as it was. *)
C14_UpdateChangesNamedFields ==
    [][\A p \in Procs :
        ( /\ pc[p] = "idle"
          /\ req'[p].op = "update"
          /\ req'[p].args.url_id \in DOMAIN urls )
        => LET i == req'[p].args.url_id
               update_data == req'[p].args.update_data
           IN  /\ i \in DOMAIN urls'
               /\ \A f \in DOMAIN urls[i] :
                    IF f \in DOMAIN update_data
                    THEN Holds(urls'[i], f, update_data[f])
                    ELSE urls'[i][f] = urls[i][f]]_vars

(* C15: a create that asks for a custom_alias and is not accepted answers
   the conflict error, also when it passed the pre-check and lost the race
   for the alias at the insert. *)
C15_RaceLoserGetsConflict ==
    \A p \in Procs :
        ( /\ Answered(p, "create")
          /\ req[p].args.custom_alias # None
          /\ req[p].outcome # "created" )
        => req[p].outcome = "conflict"

(* C16: the click_count of a stored row never decreases: over every step,
   interleaved redirects of the same row included, the value after the
   step is at least the value before it. *)
C16_ClickCountNeverDecreases ==
    [][\A i \in DOMAIN urls \cap DOMAIN urls' :
        urls'[i].click_count >= urls[i].click_count]_vars

\* session p's redirect of row i is answered with the destination in this
\* step
Redirects(p, i) ==
    /\ pc[p] = "redirect_commit"
    /\ pc'[p] = "done"
    /\ req'[p].outcome = "redirect"
    /\ req'[p].url[1].id = i

(* C17: only a successful redirect writes click_count: a step of update,
   delete, get, stats, list or create leaves the click_count of every row
   that stays stored as it was, and a row enters the store with
   click_count 0. *)
C17_OnlyRedirectWritesClickCount ==
    [][/\ \A i \in DOMAIN urls \cap DOMAIN urls' :
            urls'[i].click_count # urls[i].click_count
            => \E p \in Procs : Redirects(p, i)
       /\ \A i \in DOMAIN urls' \ DOMAIN urls : urls'[i].click_count = 0]_vars

\* an update was applied to a row that had been redirected to, and so was a
\* soft delete
C17_Witness ==
    \E p \in Procs :
        /\ Answered(p, "update")
        /\ req[p].outcome = "ok"
        /\ req[p].args.url_id \in deleted
        /\ urls[req[p].args.url_id].click_count > 0

\* the codes generate_short_code produces for the ids exercised
GeneratedCodes == {short_code_chars(url_id) : url_id \in UrlIds}

(* C18: for every positive id, decode_short_code(generate_short_code(id))
   is id; and the codes of two distinct ids differ. *)
C18_DecodeInvertsGenerate ==
    /\ (codec.op = "decode" /\ codec.url_id # None)
       => codec.decoded[1] = codec.url_id
    /\ codec.op = "generate"
       => \A url_id \in UrlIds :
            short_code_chars(url_id) = codec.short_code[1] => url_id = codec.url_id[1]

\* the code of an id that takes two digits, padded to the minimum length,
\* was decoded back to the id
C18_Witness ==
    /\ codec.op = "decode"
    /\ codec.url_id = Some(MaxUrlId)
    /\ Len(codec.short_code[1]) = HASHIDS_MIN_LENGTH
    /\ codec.decoded = Some(Some(MaxUrlId))

(* C19: for every string that generate_short_code produces for no id,
   decode_short_code returns None. *)
C19_ForeignStringsDecodeToNone ==
    ( /\ codec.op = "decode"
      /\ codec.short_code[1] \notin GeneratedCodes )
    => codec.decoded[1] = None

(* C20: get_url_by_code(s) returns a row only if s is that row's short_code
   or custom_alias, returns none when no stored row has s as an identifier,
   and for every stored row with a custom alias the lookup by its
   short_code and the lookup by its custom_alias both return that row. *)
C20_LookupByEitherIdentifier ==
    /\ \A s \in Codes :
         /\ \A url \in get_url_by_code(s) : url # None => s \in Identifiers(url[1])
         /\ (\A i \in DOMAIN urls : s \notin Identifiers(urls[i]))
            => get_url_by_code(s) = {None}
    /\ \A i \in DOMAIN urls :
         urls[i].custom_alias # None
         => /\ get_url_by_code(urls[i].short_code) = {Some(urls[i])}
            /\ get_url_by_code(urls[i].custom_alias[1]) = {Some(urls[i])}


(* C21: the click cap holds under concurrency: for a stored row with
   max_clicks = n, whose max_clicks no request changes, at most n redirects
   of the row are answered with the destination and its click_count never
   exceeds n, in every interleaving of the redirects. *)
C21_ClickCapUnderConcurrency ==
    \A i \in DOMAIN urls :
        urls[i].max_clicks # None
        => /\ served[i] <= urls[i].max_clicks[1]
           /\ urls[i].click_count <= urls[i].max_clicks[1]

\* the aliases the creates ask for
Aliases ==
    {url_data.custom_alias[1] :
        url_data \in {d \in AliasCreates \cup RaceProfile.creates : d.custom_alias # None}}

(* C22: when several creates asking for the same custom_alias run
   concurrently, at most one of them ends with a committed row holding the
   alias: in every reachable state at most one stored row has it. *)
C22_OneRowPerAlias ==
    \A alias \in Aliases :
        Cardinality({i \in DOMAIN urls : urls[i].custom_alias = Some(alias)}) <= 1

\* two creates for the same alias both passed the pre-check; one committed
\* its row and the other failed at its INSERT
C22_Witness ==
    \E p, q \in Procs :
        /\ Answered(p, "create") /\ Answered(q, "create")
        /\ req[p].args.custom_alias # None
        /\ req[q].args.custom_alias = req[p].args.custom_alias
        /\ req[p].outcome = "created"
        /\ req[q].outcome = "internal_error"
        /\ req[p].url[1].id \in DOMAIN urls

\* the requests that look a row up
Lookups == {"redirect", "get", "stats", "update", "delete"}

(* C23: every committed row has short_code = generate_short_code(id): the
   placeholder written before the id is known is never in a row that a
   lookup of another request returns, and no step changes the short_code
   of a row that stays stored. *)
C23_ShortCodeDerivedFromId ==
    /\ [](/\ \A i \in DOMAIN urls :
               /\ urls[i].id = i
               /\ urls[i].short_code = generate_short_code(i)
          /\ \A p \in Procs :
               (req[p].op \in Lookups /\ req[p].url # None)
               => /\ req[p].url[1].short_code # Placeholder
                  /\ req[p].url[1].short_code = generate_short_code(req[p].url[1].id))
    /\ [][\A i \in DOMAIN urls \cap DOMAIN urls' :
            urls'[i].short_code = urls[i].short_code]_vars

\* while one session holds its inserted row with the placeholder, not yet
\* committed, another has looked the placeholder up and found no row, and a
\* committed row is stored
C23_Witness ==
    \E p, q \in Procs :
        /\ pc[p] = "create_commit"
        /\ req[p].url[1].short_code = Placeholder
        /\ Answered(q, "get")
        /\ req[q].args.code = Placeholder
        /\ req[q].outcome = "not_found"
        /\ urls # << >>

(* C24: a create with no custom_alias always succeeds: in every
   interleaving with other creates, each of which inserts the same
   placeholder short_code before backfilling the real one, it is answered
   neither with the conflict error nor with a uniqueness violation of the
   store, and once answered it has created its row. *)
C24_CreateWithoutAliasSucceeds ==
    \A p \in Procs :
        (req[p].op = "create" /\ req[p].args.custom_alias = None)
        => /\ req[p].outcome \notin {"conflict", "internal_error"}
           /\ pc[p] = "done" => req[p].outcome = "created"

\* a create with no alias found the placeholder held by the uncommitted row
\* of another create with no alias, waited, and created its row
C24_Witness ==
    \E p, q \in Procs :
        /\ Answered(q, "create")
        /\ req[q].args.custom_alias = None
        /\ req[q].blocked
        /\ req[q].outcome = "created"
        /\ req[q].url[1].id \in DOMAIN urls
        /\ Answered(p, "create")
        /\ req[p].args.custom_alias = None
        /\ req[p].outcome = "created"

\* the gone errors of a redirect
GoneOutcomes == {"gone_deactivated", "gone_expired", "gone_max_clicks"}

(* C25: the redirect gate never falls through: when is_accessible() was
   false for the row the redirect resolved, the request goes on only to
   the report of the reason and ends with a gone error; it reaches neither
   the password check nor the click increment, although is_active,
   is_expired() and has_reached_max_clicks() are evaluated again and the
   clock may advance in between. *)
C25_GateNeverFallsThrough ==
    \A p \in Procs :
        ( /\ req[p].op = "redirect"
          /\ req[p].t_gate # None
          /\ ~is_accessible(req[p].url[1], req[p].t_gate[1]) )
        => /\ pc[p] \in {"redirect_report", "done"}
           /\ pc[p] = "done" => req[p].outcome \in GoneOutcomes
           /\ req[p].outcome \in GoneOutcomes \cup {"none"}

\* the gate was closed for an active row at one clock reading and the
\* reason was evaluated at a later one; the request ended gone
C25_Witness ==
    \E p \in Procs :
        /\ Answered(p, "redirect")
        /\ req[p].t_gate # None
        /\ req[p].url[1].is_active
        /\ ~is_accessible(req[p].url[1], req[p].t_gate[1])
        /\ req[p].t_report # None
        /\ req[p].t_report[1] > req[p].t_gate[1]
        /\ req[p].outcome \in GoneOutcomes

(* C26: every result of get_url_stats is consistent in itself: its
   is_accessible field equals is_active and not is_expired and not
   has_reached_max_clicks, taken from the fields of the same result,
   although each flag reads the clock on its own. *)
C26_StatsConsistent ==
    \A p \in Procs :
        (Answered(p, "stats") /\ req[p].outcome = "ok")
        => LET stats == req[p].result[1]
           IN  stats.is_accessible =
                   (stats.is_active /\ ~stats.is_expired /\ ~stats.has_reached_max_clicks)

(* C27: in every reachable state every stored row has click_count >= 0
   and has last_accessed_at set exactly when click_count > 0; a step
   changes either field of a row only as a successful redirect of that
   row, which leaves both set. *)
C27_LastAccessedIffClicked ==
    /\ [](\A i \in DOMAIN urls :
            /\ urls[i].click_count >= 0
            /\ (urls[i].last_accessed_at # None) <=> (urls[i].click_count > 0))
    /\ [][\A i \in DOMAIN urls \cap DOMAIN urls' :
            ( \/ urls'[i].click_count # urls[i].click_count
              \/ urls'[i].last_accessed_at # urls[i].last_accessed_at )
            => /\ \E p \in Procs : Redirects(p, i)
               /\ urls'[i].click_count > 0
               /\ urls'[i].last_accessed_at # None]_vars

\* a row was redirected to by interleaved requests, one increment was lost,
\* and the row was updated afterwards; another row was never redirected to
C27_Witness ==
    \E i, j \in DOMAIN urls :
        /\ urls[i].click_count > 0
        /\ served[i] > urls[i].click_count
        /\ urls[i].last_accessed_at # None
        /\ updated[i]
        /\ urls[j].click_count = 0
        /\ urls[j].last_accessed_at = None

=============================================================================
